---------------------------- MODULE Spec2Model ----------------------------
(***************************************************************************)
(* AutoDeFi.AI dashboard (kingsonn/nodeops): the zustand store, the wallet *)
(* and mode components, the balance fetcher with its localStorage cache,   *)
(* the portfolio tab's edit gates, the API client's getPortfolio and the   *)
(* vault countdown.                                                        *)
(*                                                                         *)
(* Encoding of JavaScript values:                                          *)
(*   - a nullable value is a set with at most one element: None is null    *)
(*     (or undefined), Some(x) is the value x;                             *)
(*   - a string that the code inspects character by character (a wallet    *)
(*     address) is a sequence of one-character strings, so that            *)
(*     toLowerCase is computed and "" is the empty sequence;               *)
(*   - a TokenBalances object is a function from its keys to its numbers.  *)
(***************************************************************************)
EXTENDS Integers, Sequences, FiniteSets, TLC

VARIABLES
    \* ---- store.ts: the persisted zustand state
    mode, walletAddress, riskPreference, tokenBalances, network,
    isLoadingBalances, hasHydrated,
    \* ---- wagmi and the browser: the connected account, window.ethereum
    wagmiAddress, hasEthereum,
    \* ---- React: the dependency values each sync effect last ran with
    mtDeps, wcDeps,
    \* ---- pending promises: disconnectAsync of either component, fetchBalances runs
    wcDisconnect, mtDisconnect, fetches,
    \* ---- localStorage['wallet_balances_cache'] and Date.now()
    cacheItem, now, ticks,
    \* ---- the BalanceCache the latest successful cacheBalances call stored,
    \*      None once it was cleared or overwritten by something else
    lastStored,
    \* ---- one getTokenBalances call: what the chain answers, what it returned
    tokenCall, tokenResult,
    \* ---- VaultsTab: the vaults' last_updated, the countdowns, the time zone
    vaults, countdowns, timeZone,
    \* ---- VaultsTab: the POST requests in flight, the refreshingId state
    vaultPosts, refreshingId,
    \* ---- one normalizeHoldings call: its argument, what it returned
    holdingsInput, holdingsResult,
    \* ---- the database: the rows of the tables of schema.sql and of
    \*      create_vaults_tables.sql
    db,
    \* ---- PortfolioTab component state and its request in flight
    showAddModal, editingHolding, ptRequest,
    \* ---- the operation that produced the current state, with its argument
    lastOp

None == {}
Some(x) == {x}
Val(o) == CHOOSE x \in o : TRUE

(***************************************************************************)
(* Wallet addresses.  wagmi hands out mixed-case (checksummed) addresses;  *)
(* AddrA and AddrALower are the same account in two spellings.             *)
(***************************************************************************)
AddrA == <<"0", "x", "A", "b", "1">>
AddrALower == <<"0", "x", "a", "b", "1">>
AddrB == <<"0", "x", "C", "d", "2">>
EmptyString == <<>>
WalletAddrs == {AddrA, AddrB}

\* store.ts:57 -- the fixed placeholder address (41 characters, as written).
demoWallet ==
    <<"0", "x", "7", "4", "2", "d", "3", "5", "C", "c", "6", "6", "3", "4",
      "C", "0", "5", "3", "2", "9", "2", "5", "a", "3", "b", "8", "4", "4",
      "B", "c", "9", "e", "7", "5", "9", "5", "f", "0", "b", "E", "b">>

Modes == {"demo", "wallet"}
Risks == {"low", "medium", "high"}

\* JavaScript truthiness of a `string | null`: null and "" are falsy.
Truthy(a) == a /= None /\ a /= Some(EmptyString)

(***************************************************************************)
(* balanceFetcher.ts getNetworkName: the chain id table.                   *)
(***************************************************************************)
getNetworkName(chainId) ==
    CASE chainId = 1 -> "Ethereum Mainnet"
      [] chainId = 5 -> "Goerli Testnet"
      [] chainId = 11155111 -> "Sepolia Testnet"
      [] chainId = 137 -> "Polygon Mainnet"
      [] chainId = 80001 -> "Mumbai Testnet"
      [] chainId = 42161 -> "Arbitrum One"
      [] chainId = 10 -> "Optimism"
      [] chainId = 8453 -> "Base"
      [] OTHER -> "Unknown Network"

NetworkInfo(chainId) == [chainId |-> chainId, name |-> getNetworkName(chainId)]
ChainIds == {137}

(***************************************************************************)
(* Numbers.  A balance is the decimal m * 10^-e kept normalised (no        *)
(* trailing zero in the fraction, zero is <<0, 0>>), which is the value    *)
(* Number(ethers.formatUnits(raw, decimals)) denotes.                      *)
(***************************************************************************)
RECURSIVE Normalize(_, _)
Normalize(m, e) ==
    IF m = 0 THEN <<0, 0>>
    ELSE IF e > 0 /\ m % 10 = 0 THEN Normalize(m \div 10, e - 1)
    ELSE <<m, e>>

Zero == <<0, 0>>

\* balanceFetcher.ts:53 and :72
formatUnits(raw, decimals) == Normalize(raw, decimals)
formatEther(raw) == formatUnits(raw, 18)

\* TokenBalances objects the store is handed in this model.
EmptyBalances == <<>>
BalancesOf(n) == [s \in {"ETH", "USDC"} |-> <<n, 0>>]
SomeBalances == {BalancesOf(1), BalancesOf(2)}

(***************************************************************************)
(* store.ts -- the state after create(): lines 55-64.                      *)
(***************************************************************************)
storeVars == <<mode, walletAddress, riskPreference, tokenBalances, network,
               isLoadingBalances, hasHydrated>>

StoreInit ==
    /\ mode = "demo"
    /\ walletAddress = None
    /\ riskPreference = "medium"
    /\ tokenBalances = EmptyBalances
    /\ network = None
    /\ isLoadingBalances = FALSE
    /\ hasHydrated = FALSE

(***************************************************************************)
(* The store's actions as state transformers.  A store state is the record *)
(* of its data fields; each action returns the state after its set()       *)
(* calls, in order.                                                        *)
(***************************************************************************)
StoreState ==
    [mode |-> mode, walletAddress |-> walletAddress,
     riskPreference |-> riskPreference, tokenBalances |-> tokenBalances,
     network |-> network, isLoadingBalances |-> isLoadingBalances,
     hasHydrated |-> hasHydrated]

\* store.ts:70-79
setMode(s, m) ==
    IF m = "demo"
    THEN [s EXCEPT !.mode = m, !.tokenBalances = EmptyBalances,
                   !.network = Some(NetworkInfo(1))]
    ELSE [s EXCEPT !.mode = m]

\* setWalletAddress without the switch to wallet mode.
setWalletAddressNoSwitch(s, a) == [s EXCEPT !.walletAddress = a]

\* store.ts:81-87
setWalletAddress(s, a) ==
    IF Truthy(a)
    THEN [s EXCEPT !.walletAddress = a, !.mode = "wallet"]
    ELSE [s EXCEPT !.walletAddress = a]

\* clearWallet resetting the risk preference too, leaving walletAddress, and
\* leaving isLoadingBalances.
clearWalletResetAll(s) ==
    [s EXCEPT !.mode = "demo", !.walletAddress = None,
              !.tokenBalances = EmptyBalances, !.network = None,
              !.isLoadingBalances = FALSE, !.riskPreference = "medium"]

clearWalletKeepAddress(s) ==
    [s EXCEPT !.mode = "demo", !.tokenBalances = EmptyBalances,
              !.network = None, !.isLoadingBalances = FALSE]

clearWalletKeepLoading(s) ==
    [s EXCEPT !.mode = "demo", !.walletAddress = None,
              !.tokenBalances = EmptyBalances, !.network = None]

\* store.ts:89-97
clearWallet(s) ==
    [s EXCEPT !.mode = "demo", !.walletAddress = None,
              !.tokenBalances = EmptyBalances, !.network = None,
              !.isLoadingBalances = FALSE]

\* store.ts:99-113
setRiskPreference(s, r) == [s EXCEPT !.riskPreference = r]
setTokenBalances(s, b) == [s EXCEPT !.tokenBalances = b]
setNetwork(s, n) == [s EXCEPT !.network = n]
setLoadingBalances(s, l) == [s EXCEPT !.isLoadingBalances = l]
setHasHydrated(s, v) == [s EXCEPT !.hasHydrated = v]

\* getActiveWallet without the fallback to the demo wallet.
getActiveWalletNoFallback(s) ==
    IF s.mode = "demo" THEN Some(demoWallet) ELSE s.walletAddress

\* store.ts:116-119
getActiveWallet(s) ==
    IF s.mode = "demo"
    THEN Some(demoWallet)
    ELSE IF Truthy(s.walletAddress) THEN s.walletAddress ELSE Some(demoWallet)

\* store.ts:121-128
isConnected(s) == IF s.mode = "wallet" THEN Truthy(s.walletAddress) ELSE TRUE
isDemoMode(s) == s.mode = "demo"

\* The store variables take the fields of the state s.
Commit(s) ==
    /\ mode' = s.mode
    /\ walletAddress' = s.walletAddress
    /\ riskPreference' = s.riskPreference
    /\ tokenBalances' = s.tokenBalances
    /\ network' = s.network
    /\ isLoadingBalances' = s.isLoadingBalances
    /\ hasHydrated' = s.hasHydrated

Op(name, arg) == [op |-> name, arg |-> arg]

\* lastOp after a step that no property below singles out.
Other == Op("other", None)


(***************************************************************************)
(* balanceFetcher.ts -- getTokenBalances (lines 36-92).                    *)
(*   provider : "none"   window is undefined or window.ethereum is missing *)
(*              "throws" constructing the provider (or any step outside    *)
(*                       the inner try blocks) throws                      *)
(*              "ok"     an injected provider is available                 *)
(*   ethRead  : None when provider.getBalance rejects, else Some(wei)      *)
(*   symbols  : the keys of the tokens map                                 *)
(*   reads    : per symbol, balanceOf and decimals, each None on rejection *)
(* Promise.all over the per-token promises cannot reject (each has its own *)
(* catch), so the result is a function of the outcomes of the reads.       *)
(***************************************************************************)
MAINNET_TOKENS == {"USDC", "DAI", "WETH", "USDT", "AAVE"}

\* lines 51-57
EthBalance(ethRead) ==
    IF ethRead = None THEN Zero ELSE formatEther(Val(ethRead))

\* One try block around all the token reads instead of one per token.
TokenBalanceShared(reads, symbol) ==
    IF \E k \in DOMAIN reads : reads[k].balance = None \/ reads[k].decimals = None
    THEN Zero
    ELSE formatUnits(Val(reads[symbol].balance), Val(reads[symbol].decimals))

\* lines 60-78
TokenBalance(reads, symbol) ==
    IF reads[symbol].balance = None \/ reads[symbol].decimals = None
    THEN Zero
    ELSE formatUnits(Val(reads[symbol].balance), Val(reads[symbol].decimals))

\* How a promise settles, and how a block of code completes.
Resolved(v) == [settled |-> "resolved", value |-> v]
Return(v) == [throws |-> FALSE, value |-> v]
Throw == [throws |-> TRUE, value |-> EmptyBalances]

\* lines 41-87, the body of the outer try
TokenBalancesBody(provider, ethRead, symbols, reads) ==
    IF provider = "none" THEN Return(EmptyBalances)
    ELSE IF provider = "throws" THEN Throw
    ELSE Return([k \in {"ETH"} \cup symbols |->
                   IF k \in symbols THEN TokenBalance(reads, k)
                                    ELSE EthBalance(ethRead)])

\* lines 36-92
getTokenBalances(provider, ethRead, symbols, reads) ==
    LET body == TokenBalancesBody(provider, ethRead, symbols, reads)
    IN IF body.throws THEN Resolved(EmptyBalances) ELSE Resolved(body.value)

\* balanceFetcher.ts:99-116 -- getNetworkInfo: null without a provider or
\* when provider.getNetwork rejects, else the chain id with its name.
getNetworkInfo(provider, chainRead) ==
    IF provider /= "ok" \/ chainRead = None
    THEN None
    ELSE Some(NetworkInfo(Val(chainRead)))

(***************************************************************************)
(* balanceFetcher.ts -- the localStorage balance cache (lines 139-207).    *)
(***************************************************************************)
CACHE_DURATION == 5 * 60 * 1000

\* String.prototype.toLowerCase on the characters an address is made of.
LowerChar(c) ==
    CASE c = "A" -> "a" [] c = "B" -> "b" [] c = "C" -> "c"
      [] c = "D" -> "d" [] c = "E" -> "e" [] c = "F" -> "f"
      [] c = "X" -> "x" [] OTHER -> c

toLowerCase(str) == [i \in DOMAIN str |-> LowerChar(str[i])]

\* JSON.stringify of a BalanceCache: the text is its members in order; the
\* balances object becomes its list of "key":number members.
JsonStringify(data) ==
    [kind |-> "object",
     address |-> data.address,
     members |-> {<<k, data.balances[k]>> : k \in DOMAIN data.balances},
     timestamp |-> data.timestamp]

\* An item that is not the JSON text of a BalanceCache (JSON.parse throws on
\* it, or yields a value without an address string).
GarbageText ==
    [kind |-> "garbage", address |-> EmptyString, members |-> {}, timestamp |-> 0]

\* JSON.parse: None stands for the exception.
JsonParse(text) ==
    IF text.kind /= "object"
    THEN None
    ELSE Some([address |-> text.address,
               balances |-> [k \in {m[1] : m \in text.members} |->
                               (CHOOSE m \in text.members : m[1] = k)[2]],
               timestamp |-> text.timestamp])

\* getCachedBalances with an entry of exactly five minutes still fresh.
getCachedBalancesInclusive(item, address, t) ==
    IF item = None THEN None
    ELSE LET parsed == JsonParse(Val(item)) IN
         IF parsed = None THEN None
         ELSE LET data == Val(parsed) IN
              IF toLowerCase(data.address) = toLowerCase(address)
                 /\ t - data.timestamp <= CACHE_DURATION
              THEN Some(data.balances)
              ELSE None

\* lines 157-177; the result is None for null.
getCachedBalances(item, address, t) ==
    IF item = None THEN None
    ELSE LET parsed == JsonParse(Val(item)) IN
         IF parsed = None THEN None
         ELSE LET data == Val(parsed) IN
              IF toLowerCase(data.address) = toLowerCase(address)
                 /\ t - data.timestamp < CACHE_DURATION
              THEN Some(data.balances)
              ELSE None

\* lines 185-196: the item after the call; when setItem throws (quota,
\* storage disabled) the catch leaves the item as it was.
cacheBalances(item, address, balances, t, setItemThrows) ==
    IF setItemThrows
    THEN item
    ELSE Some(JsonStringify([address |-> address, balances |-> balances,
                             timestamp |-> t]))

\* lines 201-207
clearBalanceCache(item) == None

\* A cacheBalances call on localStorage, at the current time.
StoreCache(address, balances, setItemThrows) ==
    /\ cacheItem' = cacheBalances(cacheItem, address, balances, now, setItemThrows)
    /\ lastStored' = IF setItemThrows
                     THEN lastStored
                     ELSE Some([address |-> address, balances |-> balances,
                                timestamp |-> now])
    /\ UNCHANGED <<now, ticks>>

\* A clearBalanceCache call on localStorage.
ClearCache ==
    /\ cacheItem' = clearBalanceCache(cacheItem)
    /\ lastStored' = None
    /\ UNCHANGED <<now, ticks>>


(***************************************************************************)
(* Variable groups.                                                        *)
(***************************************************************************)
\* What no handler of the dashboard's header and portfolio tab changes.
fixedVars ==
    <<hasEthereum, tokenCall, tokenResult, vaults, countdowns, timeZone,
      vaultPosts, refreshingId, holdingsInput, holdingsResult, db>>
envVars == <<wagmiAddress, fixedVars>>
effectVars == <<mtDeps, wcDeps>>
asyncVars == <<wcDisconnect, mtDisconnect, fetches>>
cacheVars == <<cacheItem, now, ticks, lastStored>>
portfolioVars == <<showAddModal, editingHolding, ptRequest>>
dashVars == <<envVars, effectVars, asyncVars, portfolioVars>>
vars == <<storeVars, dashVars, cacheVars, lastOp>>

MaxFetches == 1
FetchIds == 1..MaxFetches
IdleFetch == [pc |-> "idle", address |-> EmptyString]

\* The dashboard before anything is mounted or requested; the wallet
\* extension is installed or not.
DashMounting ==
    /\ wagmiAddress = None
    /\ hasEthereum \in BOOLEAN
    /\ mtDeps = None
    /\ wcDeps = None
    /\ wcDisconnect = "idle"
    /\ mtDisconnect = "idle"
    /\ fetches = [i \in FetchIds |-> IdleFetch]
    /\ showAddModal = FALSE
    /\ editingHolding = None
    /\ ptRequest = None

CacheIdle ==
    /\ cacheItem = None
    /\ now = 0
    /\ ticks = 0
    /\ lastStored = None

\* No getTokenBalances call is being examined, VaultsTab shows no vault.
\* No normalizeHoldings call is being examined, the database is not looked at.
OthersIdle ==
    /\ holdingsInput = None
    /\ holdingsResult = None
    /\ db = None

ElsewhereIdle ==
    /\ tokenCall = None
    /\ tokenResult = None
    /\ vaults = <<>>
    /\ countdowns = <<>>
    /\ timeZone = None
    /\ vaultPosts = {}
    /\ refreshingId = None
    /\ OthersIdle

(***************************************************************************)
(* api.ts getPortfolio (unnamed/part_004:61-79), called in the browser.    *)
(***************************************************************************)
\* unnamed/part_004:31-55, in the browser (typeof window /= 'undefined'):
\* the client's own copies of the store's getters, reading useStore.getState().
\* The first variant is getActiveWallet without the fallback of line 40.
api_getActiveWalletNoFallback(s) ==
    IF s.mode = "wallet" THEN s.walletAddress ELSE Some(demoWallet)

api_getActiveWallet(s) ==
    IF s.mode = "wallet"
    THEN IF Truthy(s.walletAddress) THEN s.walletAddress ELSE Some(demoWallet)
    ELSE Some(demoWallet)

api_getMode(s) == s.mode

DemoEndpoint == [path |-> "/api/portfolio/demo", wallet |-> None]
WalletEndpoint(w) == [path |-> "/api/portfolio", wallet |-> w]

getPortfolioUrl(s) ==
    IF s.mode = "demo"
    THEN DemoEndpoint
    ELSE WalletEndpoint(IF Truthy(s.walletAddress) THEN s.walletAddress
                                                   ELSE Some(demoWallet))

(***************************************************************************)
(* SpecStore: the store alone, its actions called in any order with any    *)
(* argument of their TypeScript type, and the API client's getPortfolio    *)
(* reading the store between them.                                         *)
(***************************************************************************)
AddressArgs == {None, Some(EmptyString)} \cup {Some(a) : a \in WalletAddrs}
NetworkArgs == {None} \cup {Some(NetworkInfo(c)) : c \in ChainIds}
BalanceArgs == {EmptyBalances} \cup SomeBalances

StoreStep(s, name, arg) ==
    /\ Commit(s)
    /\ lastOp' = Op(name, arg)
    /\ UNCHANGED <<dashVars, cacheVars>>

SetMode(m) == StoreStep(setMode(StoreState, m), "setMode", m)
SetWalletAddress(a) == StoreStep(setWalletAddress(StoreState, a), "setWalletAddress", a)
ClearWallet == StoreStep(clearWallet(StoreState), "clearWallet", StoreState)
SetRiskPreference(r) == StoreStep(setRiskPreference(StoreState, r), "setRiskPreference", r)
SetTokenBalances(b) == StoreStep(setTokenBalances(StoreState, b), "setTokenBalances", b)
SetNetwork(n) == StoreStep(setNetwork(StoreState, n), "setNetwork", n)
SetLoadingBalances(l) == StoreStep(setLoadingBalances(StoreState, l), "setLoadingBalances", l)
SetHasHydrated(v) == StoreStep(setHasHydrated(StoreState, v), "setHasHydrated", v)
ApiGetPortfolio == StoreStep(StoreState, "getPortfolio", getPortfolioUrl(StoreState))

StoreSpecInit ==
    /\ StoreInit
    /\ DashMounting
    /\ hasEthereum
    /\ CacheIdle
    /\ ElsewhereIdle
    /\ lastOp = Op("create", None)

StoreNext ==
    \/ \E m \in Modes : SetMode(m)
    \/ \E a \in AddressArgs : SetWalletAddress(a)
    \/ ClearWallet
    \/ \E r \in Risks : SetRiskPreference(r)
    \/ \E b \in BalanceArgs : SetTokenBalances(b)
    \/ \E n \in NetworkArgs : SetNetwork(n)
    \/ \E l \in BOOLEAN : SetLoadingBalances(l)
    \/ \E v \in BOOLEAN : SetHasHydrated(v)
    \/ ApiGetPortfolio

SpecStore == StoreSpecInit /\ [][StoreNext]_vars

C7_SetWalletAddressSwitches ==
    [][ lastOp'.op = "setWalletAddress" =>
          /\ walletAddress' = lastOp'.arg
          /\ Truthy(lastOp'.arg) => mode' = "wallet"
          /\ lastOp'.arg = None => mode' = mode ]_vars

\* C7 witness: setWalletAddress(a) called in demo mode has switched the mode.
C7_Witness ==
    /\ lastOp.op = "setWalletAddress"
    /\ lastOp.arg = Some(AddrA)
    /\ walletAddress = Some(AddrA)
    /\ mode = "wallet"
    /\ tokenBalances = EmptyBalances
    /\ network = None

\* C14: clearWallet resets exactly the session fields: afterwards mode =
\* 'demo', walletAddress = null, tokenBalances = {}, network = null and
\* isLoadingBalances = false, while riskPreference, demoWallet and
\* _hasHydrated keep their values; clearWallet applied to the result changes
\* nothing more.
C14_ClearWalletResetsSession ==
    [][ lastOp'.op = "clearWallet" =>
          /\ mode' = "demo"
          /\ walletAddress' = None
          /\ tokenBalances' = EmptyBalances
          /\ network' = None
          /\ isLoadingBalances' = FALSE
          /\ riskPreference' = riskPreference
          /\ hasHydrated' = hasHydrated
          /\ getActiveWallet(StoreState') = Some(demoWallet)
          /\ clearWallet(StoreState') = StoreState' ]_vars

\* C14 witness: clearWallet was called on a hydrated wallet session with
\* balances, a network, a fetch in flight and a risk preference that is not
\* the initial one.
C14_Witness ==
    /\ lastOp.op = "clearWallet"
    /\ lastOp.arg.mode = "wallet"
    /\ lastOp.arg.walletAddress = Some(AddrA)
    /\ lastOp.arg.tokenBalances /= EmptyBalances
    /\ lastOp.arg.network /= None
    /\ lastOp.arg.isLoadingBalances
    /\ lastOp.arg.riskPreference = "high"
    /\ lastOp.arg.hasHydrated
    /\ riskPreference = "high"
    /\ hasHydrated
    /\ mode = "demo"

\* C8 as claimed: setMode(m) with m different from the previous mode leaves
\* tokenBalances empty, in either direction.
C8_SetModeClearsBalances ==
    [][ (lastOp'.op = "setMode" /\ lastOp'.arg /= mode)
          => tokenBalances' = EmptyBalances ]_vars


wagmiConnected == wagmiAddress /= None

\* window.ethereum as balanceFetcher.ts:42 and :101 test it.
Provider == IF hasEthereum THEN "ok" ELSE "none"

\* Every sync effect has run with the current values of its dependencies.
EffectsSettled ==
    /\ mtDeps = Some(<<wagmiAddress>>)
    /\ wcDeps = Some(<<wagmiAddress, walletAddress>>)

\* AnalysisTab.tsx:332-337 -- ModeToggle's sync effect.
ModeToggleSyncEffect(s, address) ==
    IF address /= None
    THEN setMode(setWalletAddress(s, address), "wallet")
    ELSE s

\* WalletConnect.tsx:75-91 -- fetchBalances up to its first await: the store
\* after it, and where the run waits.
FetchStartStore(s, address) ==
    LET cached == getCachedBalances(cacheItem, address, now) IN
    IF cached /= None
    THEN setTokenBalances(s, Val(cached))
    ELSE setLoadingBalances(s, TRUE)

FetchStartPc(address) ==
    IF getCachedBalances(cacheItem, address, now) /= None
    THEN "cachedNet"
    ELSE "fetching"

FreeFetch == {i \in FetchIds : fetches[i].pc = "idle"}
FirstFreeFetch == CHOOSE i \in FreeFetch : \A j \in FreeFetch : i <= j

\* WalletConnect.tsx:44-58 -- WalletConnect's sync effect; rendered is the
\* walletAddress of the render the effect belongs to, s the live store.
WalletConnectSyncs(s, rendered) ==
    /\ wagmiConnected
    /\ ~isDemoMode(s)
    /\ rendered /= wagmiAddress

(***************************************************************************)
(* One commit: the effects whose dependencies changed run in tree order,   *)
(* ModeToggle before WalletConnect (settings/page.tsx:58-60).              *)
(***************************************************************************)
CommitEffects ==
    /\ ~EffectsSettled
    /\ LET s0 == StoreState
           mtRuns == mtDeps /= Some(<<wagmiAddress>>)
           wcRuns == wcDeps /= Some(<<wagmiAddress, walletAddress>>)
           s1 == IF mtRuns THEN ModeToggleSyncEffect(s0, wagmiAddress) ELSE s0
           syncs == wcRuns /\ WalletConnectSyncs(s1, s0.walletAddress)
           address == Val(wagmiAddress)
       IN /\ syncs => FreeFetch /= {}
          /\ IF syncs
             THEN /\ Commit(FetchStartStore(setWalletAddress(s1, wagmiAddress), address))
                  /\ fetches' = [fetches EXCEPT ![FirstFreeFetch] =
                                    [pc |-> FetchStartPc(address), address |-> address]]
             ELSE /\ Commit(s1)
                  /\ UNCHANGED fetches
          /\ mtDeps' = Some(<<wagmiAddress>>)
          /\ wcDeps' = Some(<<wagmiAddress, s0.walletAddress>>)
    /\ lastOp' = Other
    /\ UNCHANGED <<envVars, wcDisconnect, mtDisconnect, cacheVars, portfolioVars>>

\* The wallet extension connects an account or switches to another one.
WagmiAccountsChanged(a) ==
    /\ EffectsSettled
    /\ hasEthereum
    /\ wagmiAddress /= Some(a)
    /\ wagmiAddress' = Some(a)
    /\ lastOp' = Other
    /\ UNCHANGED <<storeVars, fixedVars, effectVars, asyncVars, cacheVars,
                   portfolioVars>>

\* The wallet extension drops the connection on its own.
WagmiDisconnected ==
    /\ EffectsSettled
    /\ wagmiConnected
    /\ wagmiAddress' = None
    /\ lastOp' = Other
    /\ UNCHANGED <<storeVars, fixedVars, effectVars, asyncVars, cacheVars,
                   portfolioVars>>

(***************************************************************************)
(* AnalysisTab.tsx:359-381 -- ModeToggle.handleToggle.  The button is      *)
(* rendered only when window.ethereum was found at mount (lines 349-357).  *)
(***************************************************************************)
HandleToggle ==
    /\ EffectsSettled
    /\ hasEthereum
    /\ IF mode = "demo"
       THEN /\ IF ~wagmiConnected
               THEN UNCHANGED storeVars   \* openConnectModal
               ELSE Commit(setWalletAddress(setMode(StoreState, "wallet"), wagmiAddress))
            /\ UNCHANGED mtDisconnect
       ELSE /\ mtDisconnect = "idle"
            /\ mtDisconnect' = "awaiting"
            /\ UNCHANGED storeVars
    /\ lastOp' = Other
    /\ UNCHANGED <<envVars, effectVars, wcDisconnect, fetches, cacheVars, portfolioVars>>

\* lines 372-379: disconnectAsync settles; the finally block runs either way.
HandleToggleSettled(resolved) ==
    /\ mtDisconnect = "awaiting"
    /\ mtDisconnect' = "idle"
    /\ wagmiAddress' = IF resolved THEN None ELSE wagmiAddress
    /\ Commit(clearWallet(StoreState))
    /\ lastOp' = Op("handleToggle.finally", resolved)
    /\ UNCHANGED <<fixedVars, effectVars, wcDisconnect, fetches, cacheVars,
                   portfolioVars>>

(***************************************************************************)
(* WalletConnect.tsx:196-262 -- what WalletConnect renders.                *)
(***************************************************************************)
storeConnected == IF mode = "wallet" THEN Truthy(walletAddress) ELSE TRUE
DisconnectButtonRendered == storeConnected /\ Truthy(getActiveWallet(StoreState))
ConnectButtonsRendered == ~DisconnectButtonRendered

HandleDisconnect ==
    /\ EffectsSettled
    /\ DisconnectButtonRendered
    /\ wcDisconnect = "idle"
    /\ IF ~isDemoMode(StoreState) /\ wagmiConnected
       THEN /\ wcDisconnect' = "awaiting"
            /\ lastOp' = Other
            /\ UNCHANGED <<storeVars, cacheVars>>
       ELSE /\ ClearCache
            /\ Commit(clearWallet(StoreState))
            /\ lastOp' = Op("handleDisconnect.finally", TRUE)
            /\ UNCHANGED wcDisconnect
    /\ UNCHANGED <<envVars, effectVars, mtDisconnect, fetches, portfolioVars>>

\* lines 162-171: disconnectAsync settles; the finally block runs either way.
HandleDisconnectSettled(resolved) ==
    /\ wcDisconnect = "awaiting"
    /\ wcDisconnect' = "idle"
    /\ wagmiAddress' = IF resolved THEN None ELSE wagmiAddress
    /\ ClearCache
    /\ Commit(clearWallet(StoreState))
    /\ lastOp' = Op("handleDisconnect.finally", resolved)
    /\ UNCHANGED <<fixedVars, effectVars, mtDisconnect, fetches, portfolioVars>>

(***************************************************************************)
(* WalletConnect.tsx:129-156 and 174-185 -- the handlers of the two        *)
(* buttons of the not-connected view (lines 241-261).                      *)
(***************************************************************************)
HandleConnectMetaMask ==
    /\ EffectsSettled
    /\ ConnectButtonsRendered
    /\ IF ~hasEthereum
       THEN Commit(setMode(StoreState, "demo"))
       ELSE UNCHANGED storeVars   \* connect({ connector }): wagmi takes over
    /\ lastOp' = Op("handleConnectMetaMask", None)
    /\ UNCHANGED <<dashVars, cacheVars>>

HandleDemoMode ==
    /\ EffectsSettled
    /\ ConnectButtonsRendered
    /\ IF mode = "wallet" /\ wagmiConnected
       THEN /\ wcDisconnect' = "awaiting"
            /\ Commit(setMode(StoreState, "demo"))
       ELSE /\ UNCHANGED wcDisconnect
            /\ Commit(setMode(IF mode = "wallet" THEN clearWallet(StoreState)
                                                ELSE StoreState, "demo"))
    /\ lastOp' = Op("handleDemoMode", None)
    /\ UNCHANGED <<envVars, effectVars, mtDisconnect, fetches, cacheVars, portfolioVars>>


(***************************************************************************)
(* WalletConnect.tsx:75-118 -- fetchBalances after its await.              *)
(***************************************************************************)
\* What the chain answers to one getTokenBalances call.
TokenRead == [balance |-> Some(2500000), decimals |-> Some(6)]
AllReadsOk == [eth |-> Some(1500000000), reads |-> [k \in MAINNET_TOKENS |-> TokenRead]]
ChainAnswers == {AllReadsOk}
ChainReads == {None} \cup {Some(c) : c \in ChainIds}

\* lines 84-88, then the finally block of line 116
FetchCachedDone(i, chainRead) ==
    /\ fetches[i].pc = "cachedNet"
    /\ LET networkInfo == getNetworkInfo(Provider, chainRead)
           s1 == IF networkInfo /= None THEN setNetwork(StoreState, networkInfo)
                                        ELSE StoreState
       IN Commit(setLoadingBalances(s1, FALSE))
    /\ fetches' = [fetches EXCEPT ![i] = IdleFetch]
    /\ lastOp' = Other
    /\ UNCHANGED <<envVars, effectVars, wcDisconnect, mtDisconnect, cacheVars,
                   portfolioVars>>

\* lines 95-111, then the finally block of line 116
FetchDone(i, chainRead, answer) ==
    /\ fetches[i].pc = "fetching"
    /\ LET networkInfo == getNetworkInfo(Provider, chainRead)
           balances == getTokenBalances(Provider, answer.eth, MAINNET_TOKENS,
                                        answer.reads).value
           s1 == IF networkInfo /= None THEN setNetwork(StoreState, networkInfo)
                                        ELSE StoreState
           s2 == setTokenBalances(s1, balances)
       IN /\ Commit(setLoadingBalances(s2, FALSE))
          /\ StoreCache(fetches[i].address, balances, FALSE)
    /\ fetches' = [fetches EXCEPT ![i] = IdleFetch]
    /\ lastOp' = Other
    /\ UNCHANGED <<envVars, effectVars, wcDisconnect, mtDisconnect, portfolioVars>>

\* Time passes.
MaxTicks == 1
Tick(d) ==
    /\ ticks < MaxTicks
    /\ now' = now + d
    /\ ticks' = ticks + 1
    /\ lastOp' = Other
    /\ UNCHANGED <<storeVars, dashVars, cacheItem, lastStored>>

(***************************************************************************)
(* The page is loaded again: the persist middleware (store.ts:130-135)     *)
(* restores the store, localStorage keeps the balance cache, every         *)
(* component is mounted afresh and wagmi starts without an account.        *)
(***************************************************************************)
Reload ==
    /\ UNCHANGED fixedVars
    /\ wagmiAddress' = None
    /\ mtDeps' = None
    /\ wcDeps' = None
    /\ wcDisconnect' = "idle"
    /\ mtDisconnect' = "idle"
    /\ fetches' = [i \in FetchIds |-> IdleFetch]
    /\ showAddModal' = FALSE
    /\ editingHolding' = None
    /\ ptRequest' = None
    /\ Commit(setHasHydrated(StoreState, TRUE))
    /\ lastOp' = Op("reload", None)
    /\ UNCHANGED cacheVars

(***************************************************************************)
(* PortfolioTab.tsx -- the edit gates and the four editing requests.       *)
(***************************************************************************)
\* The ids of the holdings of the portfolio on display.
HoldingIds == {1}

\* settings/page.tsx:68-96: the tabs are rendered while the store is connected.
PortfolioTabMounted == isConnected(StoreState)

\* PortfolioTab.tsx:30-32
isEditable(s) == isDemoMode(s) /\ ~Truthy(s.walletAddress)

\* A request as it leaves the browser: its endpoint, where its handler
\* stands, and whether the tab was editable when it was sent.
Request(kind) ==
    [kind |-> kind, pc |-> "fetch", editable |-> isEditable(StoreState)]

PortfolioStep ==
    /\ EffectsSettled
    /\ PortfolioTabMounted
    /\ lastOp' = Other
    /\ UNCHANGED <<storeVars, envVars, effectVars, asyncVars, cacheVars>>

\* lines 434-441: the Add Holding button
OpenAddModal ==
    /\ isEditable(StoreState)
    /\ ~showAddModal
    /\ showAddModal' = TRUE
    /\ UNCHANGED <<editingHolding, ptRequest>>
    /\ PortfolioStep

\* lines 640-653: Cancel in the modal
CancelAddModal ==
    /\ showAddModal
    /\ showAddModal' = FALSE
    /\ UNCHANGED <<editingHolding, ptRequest>>
    /\ PortfolioStep

\* lines 171-187, called from the modal of lines 550-664 with a filled form
HandleAddHolding ==
    /\ showAddModal
    /\ ptRequest = None
    /\ ptRequest' = Some(Request("add"))
    /\ UNCHANGED <<showAddModal, editingHolding>>
    /\ PortfolioStep

\* lines 213-216, from the amount button of lines 501-505
StartEdit(h) ==
    /\ isEditable(StoreState)
    /\ editingHolding' = Some(h)
    /\ UNCHANGED <<showAddModal, ptRequest>>
    /\ PortfolioStep

\* lines 218-221
CancelEdit ==
    /\ isEditable(StoreState)
    /\ editingHolding /= None
    /\ editingHolding' = None
    /\ UNCHANGED <<showAddModal, ptRequest>>
    /\ PortfolioStep

\* lines 223-230 and 110-116, from the edit row of lines 471-491
SaveEdit ==
    /\ isEditable(StoreState)
    /\ editingHolding /= None
    /\ ptRequest = None
    /\ ptRequest' = Some(Request("update"))
    /\ UNCHANGED <<showAddModal, editingHolding>>
    /\ PortfolioStep

\* lines 136-144, from the remove button of lines 520-526
HandleRemove ==
    /\ isEditable(StoreState)
    /\ ptRequest = None
    /\ ptRequest' = Some(Request("remove"))
    /\ UNCHANGED <<showAddModal, editingHolding>>
    /\ PortfolioStep

\* lines 84-90, from the risk selector of lines 349-362
UpdateRisk ==
    /\ isEditable(StoreState)
    /\ ptRequest = None
    /\ ptRequest' = Some(Request("risk"))
    /\ UNCHANGED <<showAddModal, editingHolding>>
    /\ PortfolioStep

\* The response arrives: response.ok starts mutate(), anything else ends the
\* handler with an error toast.
PortfolioResponse(ok) ==
    /\ ptRequest /= None
    /\ Val(ptRequest).pc = "fetch"
    /\ ptRequest' = IF ok THEN Some([Val(ptRequest) EXCEPT !.pc = "mutate"]) ELSE None
    /\ lastOp' = Other
    /\ UNCHANGED <<storeVars, envVars, effectVars, asyncVars, cacheVars, showAddModal,
                   editingHolding>>

\* settings/page.tsx:95: <PortfolioTab wallet={wallet!} /> passes no onAnalyze
\* prop, so inside PortfolioTab it is undefined.
onAnalyze == None

\* mutate() resolves: lines 119-126, 151-158, 190-202, 94-100.  The handler
\* calls onAnalyze(wallet) only if (onAnalyze); lastOp records the request
\* that was completed and whether the call was made.
PortfolioMutated ==
    /\ ptRequest /= None
    /\ Val(ptRequest).pc = "mutate"
    /\ ptRequest' = None
    /\ showAddModal' = IF Val(ptRequest).kind = "add" THEN FALSE ELSE showAddModal
    /\ editingHolding' = IF Val(ptRequest).kind = "update" THEN None ELSE editingHolding
    /\ lastOp' = Op("portfolioMutated",
                    [kind |-> Val(ptRequest).kind, analyzed |-> onAnalyze /= None])
    /\ UNCHANGED <<storeVars, envVars, effectVars, asyncVars, cacheVars>>

\* getPortfolio called from the dashboard, between two events.
GetPortfolio ==
    /\ EffectsSettled
    /\ lastOp' = Op("getPortfolio", getPortfolioUrl(StoreState))
    /\ UNCHANGED <<storeVars, envVars, effectVars, asyncVars, cacheVars, portfolioVars>>

(***************************************************************************)
(* Spec: the dashboard's wallet and mode machinery.  HandleConnectMetaMask *)
(* and HandleDemoMode are not disjuncts of Next: their buttons are         *)
(* rendered only when ConnectButtonsRendered holds, and                    *)
(* ConnectButtonsNeverRendered below is an invariant of Spec, so adding    *)
(* them adds no behaviour.  (handleRefreshBalances is left out for the     *)
(* same reason: WalletConnect.tsx:216 tests the function isDemoMode, not   *)
(* its result, so the Refresh button is never rendered.)                   *)
(***************************************************************************)
Init ==
    /\ StoreInit
    /\ DashMounting
    /\ CacheIdle
    /\ ElsewhereIdle
    /\ lastOp = Op("create", None)

WalletNext ==
    \/ CommitEffects
    \/ \E a \in WalletAddrs : WagmiAccountsChanged(a)
    \/ WagmiDisconnected
    \/ HandleToggle
    \/ \E r \in BOOLEAN : HandleToggleSettled(r)
    \/ HandleDisconnect
    \/ \E r \in BOOLEAN : HandleDisconnectSettled(r)
    \/ \E i \in FetchIds, c \in ChainReads : FetchCachedDone(i, c)
    \/ \E i \in FetchIds, c \in ChainReads, x \in ChainAnswers : FetchDone(i, c, x)
    \/ Reload

Next ==
    \/ WalletNext
    \/ Tick(CACHE_DURATION)
    \/ GetPortfolio

Spec == Init /\ [][Next]_vars

(***************************************************************************)
(* SpecPortfolio: the same machinery with PortfolioTab mounted under it.   *)
(***************************************************************************)
PortfolioNext ==
    \/ OpenAddModal
    \/ CancelAddModal
    \/ HandleAddHolding
    \/ \E h \in HoldingIds : StartEdit(h)
    \/ CancelEdit
    \/ SaveEdit
    \/ HandleRemove
    \/ UpdateRisk
    \/ \E ok \in BOOLEAN : PortfolioResponse(ok)
    \/ PortfolioMutated

SpecPortfolio == Init /\ [][WalletNext \/ PortfolioNext]_vars

ConnectButtonsNeverRendered == ~ConnectButtonsRendered


\* C3: in every state the dashboard can reach, demo mode implies that no
\* wallet address is stored, so PortfolioTab.isEditable holds in demo mode.
C3_DemoModeEditable ==
    mode = "demo" => (walletAddress = None /\ isEditable(StoreState))

\* C3 witness: demo mode entered from wallet mode by a disconnect that wagmi
\* rejected, so the wallet is still connected while the store is in demo mode.
C3_Witness ==
    /\ lastOp.op = "handleDisconnect.finally"
    /\ lastOp.arg = FALSE
    /\ mode = "demo"
    /\ wagmiConnected
    /\ walletAddress = None

\* C4: when handleDisconnect or the wallet-to-demo toggle completes, whether
\* disconnectAsync resolved or rejected, the store has mode = 'demo',
\* walletAddress = null, tokenBalances = {}, network = null and
\* isLoadingBalances = false; handleDisconnect has also removed the cache entry.
C4_DisconnectClearsState ==
    lastOp.op \in {"handleDisconnect.finally", "handleToggle.finally"} =>
        /\ mode = "demo"
        /\ walletAddress = None
        /\ tokenBalances = EmptyBalances
        /\ network = None
        /\ isLoadingBalances = FALSE
        /\ lastOp.op = "handleDisconnect.finally" => cacheItem = None

\* C4 witness: the toggle's disconnectAsync rejected while a balance fetch was
\* still in flight, and the state was cleared all the same.
C4_Witness ==
    /\ lastOp.op = "handleToggle.finally"
    /\ lastOp.arg = FALSE
    /\ wagmiConnected
    /\ \E i \in FetchIds : fetches[i].pc = "fetching"
    /\ isLoadingBalances = FALSE

\* C16 as claimed: a disconnect is not undone by a balance fetch still in
\* flight: when handleDisconnect has finished and the fetchBalances run that
\* was in flight then finishes too, the store is still in demo mode with
\* empty tokenBalances and no network, and the balance cache holds no entry.
C16_DisconnectNotUndone ==
    [][ /\ lastOp.op = "handleDisconnect.finally"
        /\ \E i \in FetchIds : fetches[i].pc /= "idle" /\ fetches'[i].pc = "idle"
        => /\ mode' = "demo"
           /\ tokenBalances' = EmptyBalances
           /\ network' = None
           /\ cacheItem' = None ]_vars

\* C17 as claimed: isLoadingBalances tracks the in-flight on-chain fetch: it
\* is true in every state where an uncached fetchBalances run is between its
\* setLoadingBalances(true) and its completion, and it is false when a step
\* other than a page load leaves no fetchBalances run in flight.
C17_LoadingTracksFetch ==
    [][ /\ (\E i \in FetchIds : fetches'[i].pc = "fetching") => isLoadingBalances'
        /\ /\ \E i \in FetchIds : fetches[i].pc /= "idle"
           /\ \A i \in FetchIds : fetches'[i].pc = "idle"
           /\ lastOp'.op /= "reload"
           => ~isLoadingBalances' ]_vars

\* C2 as claimed: PortfolioTab sends an add, update, remove or risk request
\* only while isEditable holds, never for a connected real wallet.
C2_EditsOnlyWhenEditable ==
    ptRequest /= None => Val(ptRequest).editable

CacheAddrs == {AddrA, AddrALower, AddrB}
MaxCacheTicks == 3
CacheTickSteps == {1, CACHE_DURATION - 1}

CacheStep(name, arg) ==
    /\ lastOp' = Op(name, arg)
    /\ UNCHANGED <<storeVars, dashVars>>

CacheBalances(a, b, setItemThrows) ==
    /\ StoreCache(a, b, setItemThrows)
    /\ CacheStep("cacheBalances", None)

ClearBalanceCache ==
    /\ ClearCache
    /\ CacheStep("clearBalanceCache", None)

\* The read leaves localStorage as it is; lastOp keeps what it returned.
GetCachedBalances(a) ==
    /\ CacheStep("getCachedBalances",
                 [address |-> a, result |-> getCachedBalances(cacheItem, a, now)])
    /\ UNCHANGED cacheVars

\* Something else writes the item: it is no BalanceCache any more.
CorruptItem ==
    /\ cacheItem' = Some(GarbageText)
    /\ lastStored' = None
    /\ CacheStep("corrupt", None)
    /\ UNCHANGED <<now, ticks>>

CacheTick(d) ==
    /\ ticks < MaxCacheTicks
    /\ now' = now + d
    /\ ticks' = ticks + 1
    /\ CacheStep("tick", None)
    /\ UNCHANGED <<cacheItem, lastStored>>

CacheNext ==
    \/ \E a \in CacheAddrs, b \in BalanceArgs, th \in BOOLEAN : CacheBalances(a, b, th)
    \/ ClearBalanceCache
    \/ \E a \in CacheAddrs : GetCachedBalances(a)
    \/ CorruptItem
    \/ \E d \in CacheTickSteps : CacheTick(d)

SpecCache == StoreSpecInit /\ [][CacheNext]_vars

\* Two letters that differ in case only.
CasePairs ==
    {<<"a", "A">>, <<"b", "B">>, <<"c", "C">>, <<"d", "D">>, <<"e", "E">>,
     <<"f", "F">>, <<"x", "X">>}

SameIgnoringCase(x, y) ==
    /\ Len(x) = Len(y)
    /\ \A i \in 1..Len(x) :
          x[i] = y[i] \/ <<x[i], y[i]>> \in CasePairs \/ <<y[i], x[i]>> \in CasePairs

\* The entry the latest cacheBalances call stored is still there, is for
\* address a up to letter case, and is less than five minutes old.
FreshEntryFor(a) ==
    /\ lastStored /= None
    /\ SameIgnoringCase(Val(lastStored).address, a)
    /\ now - Val(lastStored).timestamp < 5 * 60 * 1000

\* C5: getCachedBalances(a) returns the balances b exactly when the latest
\* cacheBalances call that stored an entry, not followed by clearBalanceCache,
\* stored b for an address equal to a ignoring letter case less than five
\* minutes before the read; in every other case (no entry, another address,
\* five minutes old or more, cleared, unreadable) it returns null.
C5_CachedBalancesIff ==
    lastOp.op = "getCachedBalances" =>
        IF FreshEntryFor(lastOp.arg.address)
        THEN lastOp.arg.result = Some(Val(lastStored).balances)
        ELSE lastOp.arg.result = None

\* A read one millisecond before the entry expires, for the address in
\* another letter case, returned the stored balances.
C5_Witness ==
    /\ lastOp.op = "getCachedBalances"
    /\ lastStored /= None
    /\ lastOp.arg.address /= Val(lastStored).address
    /\ now - Val(lastStored).timestamp = CACHE_DURATION - 1
    /\ lastOp.arg.result = Some(Val(lastStored).balances)


(***************************************************************************)
(* SpecTokens: getTokenBalances alone.  Init draws what one call meets     *)
(* (the provider, the tokens map, the outcome of every read); the call is  *)
(* made, and it is made again with one more read failing.  The tokens map  *)
(* holds ERC-20 symbols of MAINNET_TOKENS, so no key of it is 'ETH'.       *)
(***************************************************************************)
TokenSymbols == {"USDC", "DAI"}
Providers == {"none", "throws", "ok"}
EthReads == {None, Some(1500000000)}
TokenReads ==
    {[balance |-> Some(2500000), decimals |-> Some(6)],
     [balance |-> Some(500), decimals |-> Some(2)],
     [balance |-> None, decimals |-> Some(6)],
     [balance |-> Some(2500000), decimals |-> None]}
TokenCalls ==
    UNION {[provider : Providers, ethRead : EthReads, symbols : {syms},
            reads : [syms -> TokenReads]] : syms \in SUBSET TokenSymbols}

TokensInit ==
    /\ StoreInit
    /\ DashMounting
    /\ hasEthereum
    /\ CacheIdle
    /\ tokenCall \in {Some(c) : c \in TokenCalls}
    /\ tokenResult = None
    /\ vaults = <<>>
    /\ countdowns = <<>>
    /\ timeZone = None
    /\ vaultPosts = {}
    /\ refreshingId = None
    /\ OthersIdle
    /\ lastOp = Op("create", None)

TokenStep(call, name, arg) ==
    /\ tokenCall' = Some(call)
    /\ tokenResult' = Some(getTokenBalances(call.provider, call.ethRead,
                                            call.symbols, call.reads))
    /\ lastOp' = Op(name, arg)
    /\ UNCHANGED <<storeVars, wagmiAddress, hasEthereum, effectVars, asyncVars,
                   portfolioVars, cacheVars, vaults, countdowns, timeZone,
                   vaultPosts, refreshingId, holdingsInput, holdingsResult, db>>

GetTokenBalances ==
    /\ tokenResult = None
    /\ TokenStep(Val(tokenCall), "getTokenBalances", None)

\* The same call once more, the read of symbol k now failing.
FailRead(call, k) ==
    IF k = "ETH"
    THEN [call EXCEPT !.ethRead = None]
    ELSE [call EXCEPT !.reads[k].balance = None]

GetTokenBalancesReadFails(k) ==
    /\ tokenResult /= None
    /\ k \in {"ETH"} \cup Val(tokenCall).symbols
    /\ TokenStep(FailRead(Val(tokenCall), k), "readFails", k)

TokensNext ==
    \/ GetTokenBalances
    \/ \E k \in {"ETH"} \cup TokenSymbols : GetTokenBalancesReadFails(k)

SpecTokens == TokensInit /\ [][TokensNext]_vars

ReadFailed(call, k) ==
    IF k = "ETH"
    THEN call.ethRead = None
    ELSE call.reads[k].balance = None \/ call.reads[k].decimals = None

\* C6: getTokenBalances never rejects; with an injected provider its result
\* has the key 'ETH' and one key per symbol of the tokens map, and a failed
\* read yields 0 for its own symbol; making one more read fail changes no
\* other symbol's value; without a provider, or on an unexpected error, the
\* result is the empty map.
C6_FailuresIsolated ==
    [][LET call == Val(tokenCall')
           result == Val(tokenResult')
       IN /\ result.settled = "resolved"
          /\ IF call.provider = "ok"
             THEN /\ DOMAIN result.value = {"ETH"} \cup call.symbols
                  /\ \A k \in DOMAIN result.value :
                        ReadFailed(call, k) => result.value[k] = Zero
                  /\ lastOp'.op = "readFails" =>
                        \A k \in DOMAIN result.value \ {lastOp'.arg} :
                            result.value[k] = Val(tokenResult).value[k]
             ELSE DOMAIN result.value = {}]_vars

\* With a provider, a call whose read of one symbol fails has returned 0
\* for it next to a balance of another symbol that is not 0.
C6_Witness ==
    /\ lastOp.op = "readFails"
    /\ Val(tokenCall).provider = "ok"
    /\ Val(tokenResult).value[lastOp.arg] = Zero
    /\ \E k \in DOMAIN Val(tokenResult).value : Val(tokenResult).value[k] /= Zero


(***************************************************************************)
(* VaultsTab (WalletConnect.tsx:306-513) -- the countdown to the next      *)
(* refresh.  An instant is a number of milliseconds; vaults[v] is the      *)
(* instant new Date(vault.last_updated) denotes.  Date.prototype.getHours  *)
(* and setHours work on the local time of the browser's time zone, which   *)
(* is modelled as the offsets from UTC before and after one transition.    *)
(***************************************************************************)
MsPerMinute == 60000
MsPerHour == 3600000
MsPerDay == 24 * MsPerHour

\* The zone's offset from UTC at instant u.
Offset(z, u) == IF u < z.transition THEN z.before ELSE z.after

\* ECMAScript LocalTime(t)
LocalTime(z, u) == u + Offset(z, u)

\* ECMAScript UTC(t): a local time that is repeated or skipped at the
\* transition is read with the offset before the transition.
UTC(z, l) ==
    IF l - z.before < z.transition THEN l - z.before
    ELSE IF l - z.after >= z.transition THEN l - z.after
    ELSE l - z.before

\* Date.prototype.getHours
getHours(z, u) == (LocalTime(z, u) % MsPerDay) \div MsPerHour

\* Date.prototype.setHours(hour): the local day, minutes, seconds and
\* milliseconds are kept, the hour may run over into the next day.
setHours(z, u, hour) ==
    LET l == LocalTime(z, u)
    IN UTC(z, (l \div MsPerDay) * MsPerDay + hour * MsPerHour + (l % MsPerHour))

\* The strings calculateTimeLeft returns: 'soon' and `${hours}h ${minutes}m`.
Soon == [soon |-> TRUE, hours |-> 0, minutes |-> 0]
TimeLeft(h, m) == [soon |-> FALSE, hours |-> h, minutes |-> m]

\* WalletConnect.tsx:503-513, called at instant t in time zone z
calculateTimeLeft(z, lastUpdated, t) ==
    LET nextRefresh == setHours(z, lastUpdated, getHours(z, lastUpdated) + 6)
        diff == nextRefresh - t
    IN IF diff <= 0
       THEN Soon
       ELSE TimeLeft(diff \div 3600000, (diff % 3600000) \div 60000)

(***************************************************************************)
(* SpecVault: VaultsTab shows one vault; the list is fetched, the interval *)
(* callback recomputes the countdowns, time passes.  The browser is in    *)
(* UTC or in a zone with a daylight-saving transition four hours after    *)
(* the model's first instant (clocks set back, or forward, by one hour).   *)
(***************************************************************************)
VaultIds == {1}
TransitionAt == 4 * MsPerHour
ZoneUTC == [transition |-> TransitionAt, before |-> 0, after |-> 0]
ZoneFallBack ==
    [transition |-> TransitionAt, before |-> 0 - 4 * MsPerHour, after |-> 0 - 5 * MsPerHour]
ZoneSpringForward ==
    [transition |-> TransitionAt, before |-> 0 - 5 * MsPerHour, after |-> 0 - 4 * MsPerHour]
TimeZones == {ZoneUTC, ZoneFallBack, ZoneSpringForward}

MaxVaultTicks == 24
VaultTickStep == 30 * MsPerMinute
LastUpdatedArgs == {k * 45 * MsPerMinute : k \in 0..10}

VaultInit ==
    /\ StoreInit
    /\ DashMounting
    /\ hasEthereum
    /\ CacheIdle
    /\ tokenCall = None
    /\ tokenResult = None
    /\ vaults = <<>>
    /\ countdowns = <<>>
    /\ timeZone \in {Some(z) : z \in TimeZones}
    /\ vaultPosts = {}
    /\ refreshingId = None
    /\ OthersIdle
    /\ lastOp = Op("create", None)

VaultStep(name) ==
    /\ lastOp' = Op(name, None)
    /\ UNCHANGED <<storeVars, wagmiAddress, hasEthereum, effectVars, asyncVars,
                   portfolioVars, cacheItem, lastStored, tokenCall, tokenResult,
                   timeZone, holdingsInput, holdingsResult, db>>

\* lines 384-395: the answer of GET /api/vaults replaces the list
FetchVaultsDone(lastUpdated) ==
    /\ vaults' = [v \in VaultIds |-> lastUpdated]
    /\ VaultStep("fetchVaults")
    /\ UNCHANGED <<countdowns, now, ticks, vaultPosts, refreshingId>>

\* What VaultsTab's handlers POST; a generate request remembers the list
\* its handler closed over.
RefreshPost(v) == [kind |-> "refresh", id |-> v, seen |-> <<>>]
GeneratePost(list) == [kind |-> "generate", id |-> 0, seen |-> list]

\* An interval callback that also refreshes the vaults that are due.
CountdownTickAutoRefresh ==
    /\ DOMAIN vaults /= {}
    /\ countdowns' = [v \in DOMAIN vaults |->
                        calculateTimeLeft(Val(timeZone), vaults[v], now)]
    /\ vaultPosts' = vaultPosts \cup
                        {RefreshPost(v) : v \in {u \in DOMAIN vaults : countdowns'[u].soon}}
    /\ VaultStep("countdownTick")
    /\ UNCHANGED <<vaults, now, ticks, refreshingId>>

\* lines 326-332: the interval callback
CountdownTick ==
    /\ DOMAIN vaults /= {}
    /\ countdowns' = [v \in DOMAIN vaults |->
                        calculateTimeLeft(Val(timeZone), vaults[v], now)]
    /\ VaultStep("countdownTick")
    /\ UNCHANGED <<vaults, now, ticks, vaultPosts, refreshingId>>

VaultClock ==
    /\ ticks < MaxVaultTicks
    /\ now' = now + VaultTickStep
    /\ ticks' = ticks + 1
    /\ VaultStep("clock")
    /\ UNCHANGED <<vaults, countdowns, vaultPosts, refreshingId>>

VaultNext ==
    \/ \E lu \in LastUpdatedArgs : FetchVaultsDone(lu)
    \/ CountdownTick
    \/ VaultClock

SpecVault == VaultInit /\ [][VaultNext]_vars

\* C10: the countdown reflects a 6-hour refresh period: calculateTimeLeft
\* returns 'soon' exactly when the current time is at or past last_updated
\* plus 6 hours, and otherwise 'Hh Mm' with H and M the whole hours and the
\* remaining whole minutes of the time left, 0 <= M <= 59 and, for a
\* last_updated not in the future, 0 <= H <= 6.
C10_SixHourCountdown ==
    lastOp.op = "countdownTick" =>
        \A v \in DOMAIN vaults :
            LET remaining == vaults[v] + 6 * 60 * 60 * 1000 - now
                shown == countdowns[v]
            IN IF remaining <= 0
               THEN shown.soon
               ELSE /\ ~shown.soon
                    /\ shown.hours = remaining \div (60 * 60 * 1000)
                    /\ shown.minutes = (remaining % (60 * 60 * 1000)) \div (60 * 1000)
                    /\ shown.minutes \in 0..59
                    /\ vaults[v] <= now => shown.hours \in 0..6


(***************************************************************************)
(* SpecVaultTab: VaultsTab with its requests.  fetchVaults runs at mount   *)
(* and after a refresh that updated the vault, its answer arrives at any   *)
(* time; the user clicks Refresh and Generate; the interval callback       *)
(* fires; time passes in steps of three hours, so that countdowns reach    *)
(* 'soon'.  At most one refresh per vault is in flight, and one vault is   *)
(* generated.                                                              *)
(***************************************************************************)
GeneratedVaultId == 2
MaxVaultTabTicks == 3
VaultTabTickStep == 3 * MsPerHour
VaultTabLastUpdated == {0, 3 * MsPerHour}

\* lines 422-426: the click on a vault's Refresh button (lines 936-938)
HandleRefreshVault(v) ==
    /\ v \in DOMAIN vaults
    /\ refreshingId /= Some(v)
    /\ RefreshPost(v) \notin vaultPosts
    /\ refreshingId' = Some(v)
    /\ vaultPosts' = vaultPosts \cup {RefreshPost(v)}
    /\ VaultStep("handleRefreshVault")
    /\ UNCHANGED <<vaults, countdowns, now, ticks>>

\* lines 427-442: the refresh request settles; an updated vault makes the
\* handler call fetchVaults, whose answer is a FetchVaultsDone step.
RefreshVaultDone(v) ==
    /\ RefreshPost(v) \in vaultPosts
    /\ vaultPosts' = vaultPosts \ {RefreshPost(v)}
    /\ refreshingId' = None
    /\ VaultStep("refreshVaultDone")
    /\ UNCHANGED <<vaults, countdowns, now, ticks>>

\* lines 397-410: the click on Generate, disabled while generating
HandleGenerateVault ==
    /\ \A r \in vaultPosts : r.kind /= "generate"
    /\ GeneratedVaultId \notin DOMAIN vaults
    /\ vaultPosts' = vaultPosts \cup {GeneratePost(vaults)}
    /\ VaultStep("handleGenerateVault")
    /\ UNCHANGED <<vaults, countdowns, refreshingId, now, ticks>>

\* lines 411-420: the generate request settles; on success the new vault
\* joins the list the handler closed over.
GenerateVaultDone(ok, lastUpdated) ==
    /\ \E r \in vaultPosts :
          /\ r.kind = "generate"
          /\ vaultPosts' = vaultPosts \ {r}
          /\ vaults' = IF ok
                       THEN [v \in DOMAIN r.seen \cup {GeneratedVaultId} |->
                               IF v = GeneratedVaultId THEN lastUpdated ELSE r.seen[v]]
                       ELSE vaults
    /\ VaultStep("generateVaultDone")
    /\ UNCHANGED <<countdowns, refreshingId, now, ticks>>

VaultTabClock ==
    /\ ticks < MaxVaultTabTicks
    /\ now' = now + VaultTabTickStep
    /\ ticks' = ticks + 1
    /\ VaultStep("clock")
    /\ UNCHANGED <<vaults, countdowns, vaultPosts, refreshingId>>

VaultTabNext ==
    \/ \E lu \in VaultTabLastUpdated : FetchVaultsDone(lu)
    \/ CountdownTick
    \/ \E v \in VaultIds \cup {GeneratedVaultId} : HandleRefreshVault(v)
    \/ \E v \in VaultIds \cup {GeneratedVaultId} : RefreshVaultDone(v)
    \/ HandleGenerateVault
    \/ \E ok \in BOOLEAN, lu \in VaultTabLastUpdated : GenerateVaultDone(ok, lu)
    \/ VaultTabClock

SpecVaultTab == VaultInit /\ [][VaultTabNext]_vars

\* C11: the countdown tick only recomputes the countdown strings: it leaves
\* the vault list as it is and sends no refresh and no generate request,
\* also when a countdown reaches 'soon'; a refresh request is sent by
\* handleRefreshVault only.
C11_TickIsCosmetic ==
    [][ /\ lastOp'.op = "countdownTick" =>
              /\ vaults' = vaults
              /\ vaultPosts' = vaultPosts
              /\ refreshingId' = refreshingId
        /\ \A r \in vaultPosts' \ vaultPosts :
              r.kind = "refresh" => lastOp'.op = "handleRefreshVault" ]_vars

\* A tick has just turned a countdown to 'soon', and no request is in
\* flight.
C11_Witness ==
    /\ lastOp.op = "countdownTick"
    /\ \E v \in DOMAIN vaults : countdowns[v].soon
    /\ vaultPosts = {}


(***************************************************************************)
(* normalizeHoldings.ts -- normalizeHoldings (lines 25-40).  JavaScript    *)
(* values are tagged: undefined, null, a string (its characters), a        *)
(* number, NaN.                                                            *)
(***************************************************************************)
JsUndefined == [t |-> "undefined", s |-> <<>>, n |-> 0]
JsNull == [t |-> "null", s |-> <<>>, n |-> 0]
JsNaN == [t |-> "NaN", s |-> <<>>, n |-> 0]
JsString(str) == [t |-> "string", s |-> str, n |-> 0]
JsNumber(num) == [t |-> "number", s |-> <<>>, n |-> num]

\* ToBoolean, as || and the conditional use it
JsTruthy(v) ==
    CASE v.t = "string" -> v.s /= <<>>
      [] v.t = "number" -> v.n /= 0
      [] OTHER -> FALSE

\* a || b and a ?? b
JsOr(a, b) == IF JsTruthy(a) THEN a ELSE b
JsCoalesce(a, b) == IF a.t \in {"undefined", "null"} THEN b ELSE a

\* The value of a string of decimal digits.
DigitValue(c) ==
    CASE c = "0" -> 0 [] c = "1" -> 1 [] c = "2" -> 2 [] c = "3" -> 3
      [] c = "4" -> 4 [] c = "5" -> 5 [] c = "6" -> 6 [] c = "7" -> 7
      [] c = "8" -> 8 [] c = "9" -> 9 [] OTHER -> 0 - 1

RECURSIVE DigitsValue(_)
DigitsValue(str) ==
    IF str = <<>> THEN 0
    ELSE 10 * DigitsValue(SubSeq(str, 1, Len(str) - 1)) + DigitValue(str[Len(str)])

\* Number(v): the empty string is 0, a string that is no numeral is NaN,
\* null is 0, undefined is NaN.
JsToNumber(v) ==
    CASE v.t = "number" -> v
      [] v.t = "NaN" -> JsNaN
      [] v.t = "null" -> JsNumber(0)
      [] v.t = "undefined" -> JsNaN
      [] v.t = "string" ->
            IF \A i \in 1..Len(v.s) : DigitValue(v.s[i]) >= 0
            THEN JsNumber(DigitsValue(v.s))
            ELSE JsNaN

\* String.prototype.toUpperCase on the characters a symbol is made of.
UpperChar(c) ==
    CASE c = "e" -> "E" [] c = "t" -> "T" [] c = "h" -> "H"
      [] c = "d" -> "D" [] c = "a" -> "A" [] c = "i" -> "I" [] OTHER -> c

toUpperCase(v) == JsString([i \in DOMAIN v.s |-> UpperChar(v.s[i])])

\* One element of the argument: an object with its properties (a missing
\* property reads as undefined), or null, or undefined.
HoldingFields ==
    {"id", "protocol_name", "protocol", "provider", "token_symbol", "symbol",
     "amount", "balance", "apy", "value_usd", "updated_at", "last_updated"}
NoProperties == [f \in HoldingFields |-> JsUndefined]
JsObject(props) == [t |-> "object", p |-> props]
NullElement == [t |-> "null", p |-> NoProperties]
UndefinedElement == [t |-> "undefined", p |-> NoProperties]

\* lines 31-39: the callback of holdings.map; reading a property of null or
\* undefined throws a TypeError.
NormalizeOne(h, index) ==
    IF h.t /= "object"
    THEN Throw
    ELSE Return(
      [id |-> IF h.p.id.t /= "undefined" THEN h.p.id ELSE JsNumber(index),
       protocol_name |-> JsOr(h.p.protocol_name,
                              JsOr(h.p.protocol,
                                   JsOr(h.p.provider,
                                        JsString(<<"U", "n", "k", "n", "o", "w", "n">>)))),
       token_symbol |-> toUpperCase(JsOr(h.p.token_symbol,
                                         JsOr(h.p.symbol, JsString(<<>>)))),
       amount |-> JsToNumber(JsCoalesce(h.p.amount,
                                        JsCoalesce(h.p.balance, JsNumber(0)))),
       apy |-> JsToNumber(JsCoalesce(h.p.apy, JsNumber(0))),
       value_usd |-> JsToNumber(JsCoalesce(h.p.value_usd, JsNumber(0))),
       last_updated |-> JsOr(h.p.updated_at, JsOr(h.p.last_updated, JsNull))])

\* lines 25-40.  The argument is undefined (the default [] applies), an
\* array, or something that is no array; Array.prototype.map passes the
\* zero-based index and lets the callback's exception through.
normalizeHoldings(arg) ==
    IF arg.t = "undefined" THEN Return(<<>>)
    ELSE IF arg.t /= "array" THEN Return(<<>>)
    ELSE IF \E i \in 1..Len(arg.items) : NormalizeOne(arg.items[i], i - 1).throws
    THEN Throw
    ELSE Return([i \in 1..Len(arg.items) |-> NormalizeOne(arg.items[i], i - 1).value])


(***************************************************************************)
(* SpecHoldings: normalizeHoldings alone.  Init draws the argument: no     *)
(* array (undefined, null, an object), or an array of up to MaxHoldings    *)
(* elements, each null, undefined or an object in which one group of       *)
(* properties varies (id and the three names, the two symbols, the two     *)
(* amounts) and the others are missing.                                    *)
(***************************************************************************)
MaxHoldings == 2

Aave == JsString(<<"A", "a", "v", "e">>)
Lido == JsString(<<"L", "i", "d", "o">>)
Curve == JsString(<<"C", "u", "r", "v", "e">>)
EmptyText == JsString(<<>>)
eth == JsString(<<"e", "t", "h">>)
Dai == JsString(<<"D", "a", "i">>)

IdArgs == {JsUndefined, JsNull, JsNumber(0), JsNumber(7)}
NameArgs == {JsUndefined, EmptyText, Aave}
SymbolArgs == {JsUndefined, JsNull, EmptyText, eth}
AmountArgs == {JsUndefined, JsNull, JsNumber(0), JsNumber(5), JsString(<<"1", "2">>)}

NamedHoldings ==
    {JsObject([NoProperties EXCEPT !.id = i, !.protocol_name = a, !.protocol = b,
                                   !.provider = c]) :
        i \in IdArgs, a \in NameArgs, b \in {JsUndefined, Lido},
        c \in {JsUndefined, Curve}}
SymbolHoldings ==
    {JsObject([NoProperties EXCEPT !.token_symbol = a, !.symbol = b]) :
        a \in SymbolArgs, b \in {JsUndefined, EmptyText, Dai}}
AmountHoldings ==
    {JsObject([NoProperties EXCEPT !.amount = a, !.balance = b]) :
        a \in AmountArgs, b \in {JsUndefined, JsNumber(0), JsNumber(3)}}
ObjectElements == NamedHoldings \cup SymbolHoldings \cup AmountHoldings
ElementArgs == ObjectElements \cup {NullElement, UndefinedElement}

JsArray(items) == [t |-> "array", items |-> items]
NoArray(kind) == [t |-> kind, items |-> <<>>]
LeadingElements ==
    {JsObject([NoProperties EXCEPT !.amount = JsNumber(5)]), NullElement}
ArraysOfLength(n) ==
    {JsArray([i \in 1..n |-> IF i = n THEN h ELSE lead[i]]) :
        h \in ElementArgs, lead \in [1..(n - 1) -> LeadingElements]}
HoldingsArgs ==
    {NoArray("undefined"), NoArray("null"), NoArray("object"), NoArray("string")}
    \cup {JsArray(<<>>)}
    \cup UNION {ArraysOfLength(n) : n \in 1..MaxHoldings}

HoldingsInit ==
    /\ StoreInit
    /\ DashMounting
    /\ hasEthereum
    /\ CacheIdle
    /\ tokenCall = None
    /\ tokenResult = None
    /\ vaults = <<>>
    /\ countdowns = <<>>
    /\ timeZone = None
    /\ vaultPosts = {}
    /\ refreshingId = None
    /\ holdingsInput \in {Some(a) : a \in HoldingsArgs}
    /\ holdingsResult = None
    /\ db = None
    /\ lastOp = Op("create", None)

NormalizeHoldings ==
    /\ holdingsResult = None
    /\ holdingsResult' = Some(normalizeHoldings(Val(holdingsInput)))
    /\ lastOp' = Op("normalizeHoldings", None)
    /\ UNCHANGED <<storeVars, wagmiAddress, hasEthereum, effectVars, asyncVars,
                   portfolioVars, cacheVars, tokenCall, tokenResult, vaults,
                   countdowns, timeZone, vaultPosts, refreshingId, holdingsInput, db>>

SpecHoldings == HoldingsInit /\ [][NormalizeHoldings]_vars

\* What the statement about normalizeHoldings expects, written from its
\* words: the first non-empty string of a list, the first non-nullish value
\* of a list, and the upper-case form of a text.
NonEmptyString(v) == v.t = "string" /\ v.s /= <<>>
RECURSIVE FirstNonEmpty(_, _)
FirstNonEmpty(vs, default) ==
    IF vs = <<>> THEN default
    ELSE IF NonEmptyString(Head(vs)) THEN Head(vs)
    ELSE FirstNonEmpty(Tail(vs), default)
Nullish(v) == v.t \in {"undefined", "null"}
RECURSIVE FirstNonNullish(_, _)
FirstNonNullish(vs, default) ==
    IF vs = <<>> THEN default
    ELSE IF ~Nullish(Head(vs)) THEN Head(vs)
    ELSE FirstNonNullish(Tail(vs), default)
UpperCaseTexts ==
    (EmptyText :> EmptyText) @@ (eth :> JsString(<<"E", "T", "H">>))
    @@ (Dai :> JsString(<<"D", "A", "I">>))
SameNumber(a, b) ==
    \/ a = b
    \/ a.t = "string" /\ b.t = "number" /\ a.s = <<"1", "2">> /\ b.n = 12
HoldingAsClaimed(h, index, r) ==
    /\ r.id = IF h.p.id.t /= "undefined" THEN h.p.id ELSE JsNumber(index)
    /\ r.protocol_name =
          FirstNonEmpty(<<h.p.protocol_name, h.p.protocol, h.p.provider>>,
                        JsString(<<"U", "n", "k", "n", "o", "w", "n">>))
    /\ r.token_symbol =
          UpperCaseTexts[FirstNonEmpty(<<h.p.token_symbol, h.p.symbol>>, EmptyText)]
    /\ SameNumber(FirstNonNullish(<<h.p.amount, h.p.balance>>, JsNumber(0)), r.amount)
HoldingsAsClaimed(arg, res) ==
    /\ ~res.throws
    /\ arg.t /= "array" => res.value = <<>>
    /\ arg.t = "array" =>
          /\ Len(res.value) = Len(arg.items)
          /\ \A i \in 1..Len(arg.items) :
                /\ arg.items[i].t = "object"
                /\ HoldingAsClaimed(arg.items[i], i - 1, res.value[i])

\* C12: normalizeHoldings returns [] for every non-array input and, for
\* every array input, an array of the same length and order whose elements
\* carry id (the input id when defined, else the index), protocol_name
\* (first non-empty of protocol_name, protocol, provider, else 'Unknown'),
\* token_symbol (upper-cased first non-empty of token_symbol, symbol, else
\* '') and amount (first non-nullish of amount, balance, else 0).
C12_NormalizeHoldings ==
    holdingsResult /= None =>
        HoldingsAsClaimed(Val(holdingsInput), Val(holdingsResult))

\* The same statement restricted to arrays whose elements are all objects.
NormalizeHoldingsOfObjects ==
    /\ holdingsResult /= None
    /\ Val(holdingsInput).t = "array" =>
          \A i \in 1..Len(Val(holdingsInput).items) :
              Val(holdingsInput).items[i].t = "object"
    => HoldingsAsClaimed(Val(holdingsInput), Val(holdingsResult))


(***************************************************************************)
(* db/schema.sql and backend/migrations/create_vaults_tables.sql: the      *)
(* tables with a key or a reference, a row reduced to those columns.  A    *)
(* reference column is an INTEGER without NOT NULL: it holds NULL (None)   *)
(* or an id.  db holds the tables; a statement the constraints reject      *)
(* changes nothing and is no step.                                         *)
(***************************************************************************)
MaxUsers == 2
MaxRows == 1

UserIds == 1..MaxUsers
RowIds == 1..MaxRows
WalletAddresses == {AddrA, AddrB}
Null == None

EmptyDb ==
    [users |-> {}, portfolios |-> {}, holdings |-> {}, transaction_logs |-> {},
     ai_decision_logs |-> {}, vaults |-> {}, vault_subscriptions |-> {},
     vault_ai_logs |-> {}]

Ids(table) == {row.id : row \in table}

\* REFERENCES parent(id): NULL, or the id of a row of the parent table.
ForeignKeyHolds(ref, parent) == IF ref = Null THEN TRUE ELSE Val(ref) \in Ids(parent)
RefArgs(ids) == {Null} \cup {Some(i) : i \in ids}

\* ON DELETE CASCADE: the rows of a table whose column references one of the
\* deleted ids go with them.
Referencing(table, column, ids) ==
    {row \in table : row[column] /= Null /\ Val(row[column]) \in ids}

\* DELETE FROM users WHERE id IN ids, with the cascades of schema.sql:16, 25,
\* 50, 63 and create_vaults_tables.sql:34.
DeleteUsers(d, ids) ==
    LET ps == Referencing(d.portfolios, "user_id", ids) IN
    [d EXCEPT !.users = {u \in @ : u.id \notin ids},
              !.portfolios = @ \ ps,
              !.holdings = @ \ Referencing(@, "portfolio_id", Ids(ps)),
              !.transaction_logs = @ \ Referencing(@, "user_id", ids),
              !.ai_decision_logs = @ \ Referencing(@, "user_id", ids),
              !.vault_subscriptions = @ \ Referencing(@, "user_id", ids)]

\* DELETE FROM portfolios, schema.sql:25
DeletePortfolios(d, ids) ==
    [d EXCEPT !.portfolios = {q \in @ : q.id \notin ids},
              !.holdings = @ \ Referencing(@, "portfolio_id", ids)]

\* DELETE FROM vaults, create_vaults_tables.sql:35, 46
DeleteVaults(d, ids) ==
    [d EXCEPT !.vaults = {v \in @ : v.id \notin ids},
              !.vault_subscriptions = @ \ Referencing(@, "vault_id", ids),
              !.vault_ai_logs = @ \ Referencing(@, "vault_id", ids)]

DbStep(d, name, arg) ==
    /\ db /= None
    /\ db' = Some(d)
    /\ lastOp' = Op(name, arg)
    /\ UNCHANGED <<storeVars, wagmiAddress, hasEthereum, effectVars, asyncVars,
                   portfolioVars, cacheVars, tokenCall, tokenResult, vaults,
                   countdowns, timeZone, vaultPosts, refreshingId, holdingsInput,
                   holdingsResult>>

\* INSERT INTO users: PRIMARY KEY (line 6), UNIQUE NOT NULL (line 7)
InsertUser(id, wallet) ==
    /\ db /= None
    /\ id \notin Ids(Val(db).users)
    /\ \A u \in Val(db).users : u.wallet_address /= wallet
    /\ DbStep([Val(db) EXCEPT !.users = @ \cup {[id |-> id, wallet_address |-> wallet]}],
              "insert", None)

\* INSERT INTO a table with one reference column
InsertChild(table, column, parent, id, ref) ==
    /\ db /= None
    /\ id \notin Ids(Val(db)[table])
    /\ ForeignKeyHolds(ref, Val(db)[parent])
    /\ DbStep([Val(db) EXCEPT ![table] = @ \cup {[id |-> id] @@ (column :> ref)}],
              "insert", None)

InsertPortfolio(id, ref) == InsertChild("portfolios", "user_id", "users", id, ref)
InsertHolding(id, ref) == InsertChild("holdings", "portfolio_id", "portfolios", id, ref)
InsertTransactionLog(id, ref) ==
    InsertChild("transaction_logs", "user_id", "users", id, ref)
InsertAiDecisionLog(id, ref) ==
    InsertChild("ai_decision_logs", "user_id", "users", id, ref)
InsertVaultAiLog(id, ref) == InsertChild("vault_ai_logs", "vault_id", "vaults", id, ref)

\* INSERT INTO vaults: PRIMARY KEY only
InsertVault(id) ==
    /\ db /= None
    /\ id \notin Ids(Val(db).vaults)
    /\ DbStep([Val(db) EXCEPT !.vaults = @ \cup {[id |-> id]}], "insert", None)

\* INSERT INTO vault_subscriptions: two references (lines 34-35)
InsertVaultSubscription(id, user, vault) ==
    /\ db /= None
    /\ id \notin Ids(Val(db).vault_subscriptions)
    /\ ForeignKeyHolds(user, Val(db).users)
    /\ ForeignKeyHolds(vault, Val(db).vaults)
    /\ DbStep([Val(db) EXCEPT !.vault_subscriptions =
                  @ \cup {[id |-> id, user_id |-> user, vault_id |-> vault]}],
              "insert", None)

\* DELETE FROM ... WHERE id = ...
DeleteUser(id) ==
    /\ db /= None
    /\ id \in Ids(Val(db).users)
    /\ DbStep(DeleteUsers(Val(db), {id}), "deleteUser", id)

DeletePortfolio(id) ==
    /\ db /= None
    /\ id \in Ids(Val(db).portfolios)
    /\ DbStep(DeletePortfolios(Val(db), {id}), "deletePortfolio", id)

DeleteVault(id) ==
    /\ db /= None
    /\ id \in Ids(Val(db).vaults)
    /\ DbStep(DeleteVaults(Val(db), {id}), "deleteVault", id)

\* DELETE FROM a table nothing references
DeleteRow(table, id) ==
    /\ db /= None
    /\ id \in Ids(Val(db)[table])
    /\ DbStep([Val(db) EXCEPT ![table] = {row \in @ : row.id /= id}], "delete", None)

LeafTables ==
    {"holdings", "transaction_logs", "ai_decision_logs", "vault_subscriptions",
     "vault_ai_logs"}

DbInit ==
    /\ StoreInit
    /\ DashMounting
    /\ hasEthereum
    /\ CacheIdle
    /\ tokenCall = None
    /\ tokenResult = None
    /\ vaults = <<>>
    /\ countdowns = <<>>
    /\ timeZone = None
    /\ vaultPosts = {}
    /\ refreshingId = None
    /\ holdingsInput = None
    /\ holdingsResult = None
    /\ db = Some(EmptyDb)
    /\ lastOp = Op("create", None)

DbNext ==
    \/ \E id \in UserIds, wallet \in WalletAddresses : InsertUser(id, wallet)
    \/ \E id \in RowIds, ref \in RefArgs(UserIds) : InsertPortfolio(id, ref)
    \/ \E id \in RowIds, ref \in RefArgs(RowIds) : InsertHolding(id, ref)
    \/ \E id \in RowIds, ref \in RefArgs(UserIds) : InsertTransactionLog(id, ref)
    \/ \E id \in RowIds, ref \in RefArgs(UserIds) : InsertAiDecisionLog(id, ref)
    \/ \E id \in RowIds : InsertVault(id)
    \/ \E id \in RowIds, user \in RefArgs(UserIds), vault \in RefArgs(RowIds) :
          InsertVaultSubscription(id, user, vault)
    \/ \E id \in RowIds, ref \in RefArgs(RowIds) : InsertVaultAiLog(id, ref)
    \/ \E id \in UserIds : DeleteUser(id)
    \/ \E id \in RowIds : DeletePortfolio(id)
    \/ \E id \in RowIds : DeleteVault(id)
    \/ \E table \in LeafTables, id \in RowIds : DeleteRow(table, id)

SpecDb == DbInit /\ [][DbNext]_vars

References(table, column, parent) ==
    \A row \in table : row[column] /= Null /\ Val(row[column]) \in Ids(parent)

\* C18 as claimed: after any sequence of inserts and deletes every holding
\* references an existing portfolio, every portfolio, transaction log, AI
\* decision log and vault subscription references an existing user, every
\* vault subscription and vault AI log references an existing vault, and no
\* two users share a wallet_address.
C18_NoOrphanRows ==
    db /= None =>
        LET d == Val(db) IN
        /\ References(d.holdings, "portfolio_id", d.portfolios)
        /\ References(d.portfolios, "user_id", d.users)
        /\ References(d.transaction_logs, "user_id", d.users)
        /\ References(d.ai_decision_logs, "user_id", d.users)
        /\ References(d.vault_subscriptions, "user_id", d.users)
        /\ References(d.vault_subscriptions, "vault_id", d.vaults)
        /\ References(d.vault_ai_logs, "vault_id", d.vaults)
        /\ \A u1, u2 \in d.users : u1.wallet_address = u2.wallet_address => u1 = u2

\* The same with NULL references set aside: every reference that is not NULL
\* names a row that exists, and wallet addresses are unique.
NoDanglingReference ==
    db /= None =>
        LET d == Val(db) IN
        /\ \A h \in d.holdings : ForeignKeyHolds(h.portfolio_id, d.portfolios)
        /\ \A q \in d.portfolios : ForeignKeyHolds(q.user_id, d.users)
        /\ \A l \in d.transaction_logs : ForeignKeyHolds(l.user_id, d.users)
        /\ \A l \in d.ai_decision_logs : ForeignKeyHolds(l.user_id, d.users)
        /\ \A s \in d.vault_subscriptions :
              ForeignKeyHolds(s.user_id, d.users) /\ ForeignKeyHolds(s.vault_id, d.vaults)
        /\ \A l \in d.vault_ai_logs : ForeignKeyHolds(l.vault_id, d.vaults)
        /\ \A u1, u2 \in d.users : u1.wallet_address = u2.wallet_address => u1 = u2

=============================================================================
